---- MODULE Spec2Model ----
(***************************************************************************)
(* A model of wow-influxdb (src/main.rs): one run of the binary.           *)
(*                                                                         *)
(*   main -> get_settings -> get_access_token ->                           *)
(*       Update            : perform_single_update -> update_prices*       *)
(*       ListAuctionHouses : list_all_auction_houses                       *)
(*                                                                         *)
(* Every `.await` on a network call is two steps: the call is issued and   *)
(* the call returns (Ok or Err).  `?` on an Err ends the run in "Failed";  *)
(* a Rust panic (integer division by zero) ends it in "Panicked".          *)
(* Output on stdout (println!) is not part of the state.                   *)
(***************************************************************************)
EXTENDS Integers, Sequences, FiniteSets, TLC

VARIABLES
    command,           \* args.command: "Update" or "ListAuctionHouses"
    pc,                \* position of the single task
    error,             \* the error the run ended with, "none" while running
    auction_houses,    \* settings.auction_houses: Vec<(i64, i64)>
    access_token,      \* main's access_token: HeaderValue, <<>> before it exists
    pair,              \* position of perform_single_update's for loop
    fetched,           \* update_prices' `auctions` (the parsed AuctionList)
    pos,               \* position of update_prices' `for auction in auctions`
    by_items,          \* update_prices' by_items: HashMap<i64, ItemData>
    points,            \* update_prices' points: Vec<DataPoint>
    writes,            \* calls of influxdb2 client.write, in order
    requests,          \* HTTP requests sent to battle.net, in order
    inflight,          \* number of network calls issued and not yet returned
    connected_realms,  \* list_all_auction_houses: the index's links
    link_pos,          \* position of its outer for loop
    connected_realm,   \* the ConnectedRealm being walked
    realm_pos          \* position of the loop over connected_realm.realms

vars == <<command, pc, error, auction_houses, access_token, pair, fetched, pos,
          by_items, points, writes, requests, inflight, connected_realms,
          link_pos, connected_realm, realm_pos>>

(***************************************************************************)
(* Bounds of the model.                                                    *)
(***************************************************************************)
\* i64::MAX scaled down: total_items saturates at this value.
I64Max == 3
\* Longest listing sequence given to the aggregation loop on its own.
MaxLen == 3
\* Longest listing sequence a fetch returns in a whole run.
MaxFetched == 2
\* Most configured (realm, auction-house) pairs.
MaxPairs == 2
\* Most links in the connected-realm index.
MaxLinks == 2
\* Most member realms of a connected realm.
MaxRealms == 2

I64Min == -I64Max - 1

(***************************************************************************)
(* Input domains.                                                          *)
(***************************************************************************)
ItemIds == {1, 2}
Buyouts == {0, 1, 2}
Quantities == {-1, 0, 1, 2}

\* struct Auction, the fields update_prices reads.
Auction(i, b, q) == [item |-> i, buyout |-> b, quantity |-> q]

Listings == {Auction(i, b, q) : i \in ItemIds, b \in Buyouts, q \in Quantities}

\* The listings a fetch returns in a whole run: a listing with a buyout, a
\* listing of another item without one, and a listing of quantity 0 with a
\* buyout.
RunListings == {Auction(1, 2, 1), Auction(2, 0, 2), Auction(2, 1, 0)}

SeqsUpTo(S, n) == UNION {[1..k -> S] : k \in 0..n}

\* (realm, auction house) pairs a configuration may name.
PairChoices == {<<10, 2>>, <<11, 6>>}
\* access_token().secret() values the token endpoint may issue.
Secrets == {"s1", "s2"}
\* hrefs of connected-realm links, and connected-realm ids.
Hrefs == {"h1", "h2"}
RealmIds == {10, 11}
RealmNames == {"n"}
\* The member realms of a connected realm: it has at least one.
RealmLists == SeqsUpTo(RealmNames, MaxRealms) \ {<<>>}

EmptyMap == [x \in {} |-> x]

(***************************************************************************)
(* update_prices: the aggregation loop.                                    *)
(***************************************************************************)
\* ItemData::default()
ItemDataDefault == [auctions |-> 0, total_items |-> 0, min_buyout |-> 0]

\* i64::wrapping_add at the model's width.
wrapping_add(a, b) == ((a + b - I64Min) % (2 * (I64Max + 1))) + I64Min

\* i64::saturating_add
saturating_add(a, b) ==
    IF a + b > I64Max THEN I64Max
    ELSE IF a + b < I64Min THEN I64Min
    ELSE a + b

Abs(a) == IF a < 0 THEN -a ELSE a
Min2(a, b) == IF a < b THEN a ELSE b
Max2(a, b) == IF a > b THEN a ELSE b

\* i64 `/`: truncates toward zero; b # 0.
i64_div(a, b) ==
    IF (a < 0) = (b < 0) THEN Abs(a) \div Abs(b) ELSE -(Abs(a) \div Abs(b))

\* `auction.buyout / auction.quantity` panics: attempt to divide by zero.
div_panics(auction) == auction.buyout > 0 /\ auction.quantity = 0

\* by_items.entry(id).or_default() that forgets the entry it finds.
or_default_fresh(by, id) == ItemDataDefault

\* by_items.entry(id).or_default()
or_default(by, id) == IF id \in DOMAIN by THEN by[id] ELSE ItemDataDefault

\* The min_buyout update of one listing (lines 166-171), no panic.
update_min_buyout(entry_min, auction) ==
    IF auction.buyout > 0
    THEN LET min_buyout == i64_div(auction.buyout, auction.quantity)
         IN IF entry_min = 0 \/ entry_min > min_buyout
            THEN min_buyout ELSE entry_min
    ELSE entry_min

\* One iteration of `for auction in auctions` that does not panic.  The
\* count `entry.auctions += 1` cannot overflow an i64 on a sequence that
\* fits in memory, so it is an unbounded integer here.
loop_body(by, auction) ==
    LET entry == or_default(by, auction.item)
        new == [auctions    |-> entry.auctions + 1,
                total_items |-> saturating_add(entry.total_items, auction.quantity),
                min_buyout  |-> update_min_buyout(entry.min_buyout, auction)]
    IN [id \in DOMAIN by \cup {auction.item} |->
            IF id = auction.item THEN new ELSE by[id]]

\* The whole loop on a listing sequence: whether it panics, and by_items
\* if it does not.
RECURSIVE aggregate_from(_, _, _)
aggregate_from(by, s, i) ==
    IF i > Len(s) THEN [panicked |-> FALSE, by_items |-> by]
    ELSE IF div_panics(s[i]) THEN [panicked |-> TRUE, by_items |-> EmptyMap]
    ELSE aggregate_from(loop_body(by, s[i]), s, i + 1)

aggregate(s) == aggregate_from(EmptyMap, s, 1)

\* One step of the loop in the running program.  A panic unwinds out of
\* main: the process exits and by_items is never read again.
update_prices_loop ==
    /\ pc = "Aggregate"
    /\ pos <= Len(fetched)
    /\ IF div_panics(fetched[pos])
       THEN /\ pc' = "Panicked"
            /\ error' = "DivideByZero"
            /\ UNCHANGED <<by_items, pos>>
       ELSE /\ by_items' = loop_body(by_items, fetched[pos])
            /\ pos' = pos + 1
            /\ UNCHANGED <<pc, error>>
    /\ UNCHANGED <<command, auction_houses, access_token, pair, fetched, points,
                   writes, requests, inflight, connected_realms, link_pos,
                   connected_realm, realm_pos>>

(***************************************************************************)
(* Helpers shared by the steps of a run.                                   *)
(***************************************************************************)
cfgVars == <<command, auction_houses>>
updVars == <<pair, fetched, pos, by_items, points, writes>>
listVars == <<connected_realms, link_pos, connected_realm, realm_pos>>

NoRealm == [id |-> 0, realms |-> <<>>]

\* A request as battle.net sees it: the AUTHORIZATION header and the URL.
Request(kind, auth, url) == [kind |-> kind, auth |-> auth, url |-> url]

\* `?` on an Err: the error propagates out of main and the process exits.
Fail(kind) == pc' = "Failed" /\ error' = kind

\* `.send().await` returned: Ok goes on to `.json().await`, Err propagates.
SendReturn(at, next) ==
    /\ pc = at
    /\ \E ok \in BOOLEAN :
          IF ok THEN pc' = next /\ UNCHANGED <<error, inflight>>
          ELSE Fail("TransportError") /\ inflight' = inflight - 1
    /\ UNCHANGED <<cfgVars, access_token, updVars, requests, listVars>>

\* A request that carries no credential.
authorization_dropped(token) == <<>>

\* headers.insert(AUTHORIZATION, access_token): the value as it was cloned.
authorization(token) == token

\* A get_* function up to `.send()`: building the headers or the client may
\* fail, and then nothing is sent.
SendRequest(at, next, kind, url) ==
    /\ pc = at
    /\ \E built \in BOOLEAN :
          IF built
          THEN /\ requests' = Append(requests, Request(kind, authorization(access_token), url))
               /\ inflight' = inflight + 1
               /\ pc' = next
               /\ UNCHANGED error
          ELSE /\ Fail("ClientError")
               /\ UNCHANGED <<requests, inflight>>
    /\ UNCHANGED <<cfgVars, access_token, updVars, listVars>>

(***************************************************************************)
(* main, get_settings, get_access_token.                                   *)
(***************************************************************************)
\* let settings = get_settings(&args).context(..)?
get_settings ==
    /\ pc = "Start"
    /\ \E ok \in BOOLEAN :
          IF ok THEN pc' = "Auth" /\ UNCHANGED error
          ELSE Fail("ConfigError")
    /\ UNCHANGED <<cfgVars, access_token, updVars, requests, inflight, listVars>>

\* client.exchange_client_credentials().request_async(..) is issued.
get_access_token_request ==
    /\ pc = "Auth"
    /\ requests' = Append(requests, Request("token", <<>>, <<"token">>))
    /\ inflight' = inflight + 1
    /\ pc' = "AuthWait"
    /\ UNCHANGED <<cfgVars, error, access_token, updVars, listVars>>

\* The exchange returns: the header value "{token_type:?} {secret}", or an
\* error that ends the run.
get_access_token_response ==
    /\ pc = "AuthWait"
    /\ inflight' = inflight - 1
    /\ \E ok \in BOOLEAN :
          IF ok
          THEN /\ \E secret \in Secrets : access_token' = <<"Bearer", secret>>
               /\ pc' = "Dispatch"
               /\ UNCHANGED error
          ELSE /\ Fail("AuthError")
               /\ UNCHANGED access_token
    /\ UNCHANGED <<cfgVars, updVars, requests, listVars>>

(***************************************************************************)
(* perform_single_update and update_prices.                                *)
(***************************************************************************)
\* read_names_by_id(): the bundled item names (an item with a name, one
\* without).
names_by_id == (1 :> "Linen Cloth")

\* The same loop, ending one pair early.
NextPairShort(next) == IF next >= Len(auction_houses) THEN "Done" ELSE "Fetch"

\* Where the for loop over settings.auction_houses goes with `next` pairs
\* taken.
NextPair(next) == IF next > Len(auction_houses) THEN "Done" ELSE "Fetch"

\* Command::Update: perform_single_update up to its first update_prices.
perform_single_update ==
    /\ pc = "Dispatch"
    /\ command = "Update"
    /\ pair' = 1
    /\ pc' = NextPair(1)
    /\ UNCHANGED <<cfgVars, error, access_token, fetched, pos, by_items, points,
                   writes, requests, inflight, listVars>>

\* get_auctions up to .send()
get_auctions_send ==
    /\ pair \in 1..Len(auction_houses)
    /\ SendRequest("Fetch", "FetchSend", "auctions",
                   <<"connected-realm", auction_houses[pair][1],
                     "auctions", auction_houses[pair][2]>>)

get_auctions_send_return == SendReturn("FetchSend", "FetchJson")

\* .json::<AuctionList>().await: the parsed listings, or a parse error.
get_auctions_json ==
    /\ pc = "FetchJson"
    /\ inflight' = inflight - 1
    /\ \E ok \in BOOLEAN :
          IF ok
          THEN /\ fetched' \in SeqsUpTo(RunListings, MaxFetched)
               /\ pos' = 1
               /\ by_items' = EmptyMap
               /\ pc' = "Aggregate"
               /\ UNCHANGED error
          ELSE /\ Fail("ParseError")
               /\ UNCHANGED <<fetched, pos, by_items>>
    /\ UNCHANGED <<cfgVars, access_token, pair, points, writes, requests, listVars>>

\* DataPoint::builder("auctions")...build() for one entry of by_items.
DataPoint(id, data, realm, ah) ==
    [measurement |-> "auctions",
     tags |-> [item_id  |-> ToString(id),
               realm_id |-> ToString(realm),
               ah_id    |-> ToString(ah)]
              @@ (IF id \in DOMAIN names_by_id
                  THEN [item_name |-> names_by_id[id]] ELSE EmptyMap),
     fields |-> [count       |-> data.auctions,
                 total_items |-> data.total_items,
                 min_buyout  |-> data.min_buyout]]

\* The orders in which a HashMap may hand out its keys.
KeyOrders(S) == {o \in [1..Cardinality(S) -> S] : \A i, j \in DOMAIN o : o[i] = o[j] => i = j}

\* `for (id, data) in by_items`: one point per entry, in the map's order.
\* build() cannot fail here: every point has its three fields.
update_prices_points ==
    /\ pc = "Aggregate"
    /\ pos > Len(fetched)
    /\ \E order \in KeyOrders(DOMAIN by_items) :
          points' = [i \in DOMAIN order |->
                        DataPoint(order[i], by_items[order[i]],
                                  auction_houses[pair][1], auction_houses[pair][2])]
    /\ pc' = "Write"
    /\ UNCHANGED <<cfgVars, error, access_token, pair, fetched, pos, by_items,
                   writes, requests, inflight, listVars>>

\* client.write(&bucket, stream::iter(points)) is issued: one call for the
\* whole batch.
client_write_request ==
    /\ pc = "Write"
    /\ writes' = Append(writes, [bucket |-> "bucket", points |-> points,
                                 completed |-> FALSE])
    /\ inflight' = inflight + 1
    /\ pc' = "WriteWait"
    /\ UNCHANGED <<cfgVars, error, access_token, pair, fetched, pos, by_items,
                   points, requests, listVars>>

\* The write returns, and an Err is dropped instead of propagated: the loop
\* takes the next pair either way.
client_write_response_lenient ==
    /\ pc = "WriteWait"
    /\ inflight' = inflight - 1
    /\ \E ok \in BOOLEAN :
          /\ writes' = [writes EXCEPT ![Len(writes)].completed = ok]
          /\ pair' = pair + 1
          /\ fetched' = <<>>
          /\ pos' = 0
          /\ by_items' = EmptyMap
          /\ points' = <<>>
          /\ pc' = IF pair + 1 > Len(auction_houses) THEN "Done" ELSE "Fetch"
          /\ UNCHANGED error
    /\ UNCHANGED <<cfgVars, access_token, requests, listVars>>

\* The write returns.  Ok: update_prices returns Ok(()), its locals are
\* dropped and the for loop takes the next pair.  Err: the run ends.
client_write_response ==
    /\ pc = "WriteWait"
    /\ inflight' = inflight - 1
    /\ \E ok \in BOOLEAN :
          IF ok
          THEN /\ writes' = [writes EXCEPT ![Len(writes)].completed = TRUE]
               /\ pair' = pair + 1
               /\ fetched' = <<>>
               /\ pos' = 0
               /\ by_items' = EmptyMap
               /\ points' = <<>>
               /\ pc' = NextPair(pair + 1)
               /\ UNCHANGED error
          ELSE /\ Fail("WriteError")
               /\ UNCHANGED updVars
    /\ UNCHANGED <<cfgVars, access_token, requests, listVars>>

(***************************************************************************)
(* list_all_auction_houses.                                                *)
(***************************************************************************)
\* Command::ListAuctionHouses
list_all_auction_houses ==
    /\ pc = "Dispatch"
    /\ command = "ListAuctionHouses"
    /\ pc' = "Index"
    /\ UNCHANGED <<cfgVars, error, access_token, updVars, requests, inflight, listVars>>

get_connected_realms_send ==
    SendRequest("Index", "IndexSend", "connected_realm_index",
                <<"connected-realm", "index">>)

get_connected_realms_send_return == SendReturn("IndexSend", "IndexJson")

\* Where the outer for loop goes with `next` links taken.
NextLink(links, next) == IF next > Len(links) THEN "Done" ELSE "Detail"

\* .json::<ConnectedRealmList>().await
get_connected_realms_json ==
    /\ pc = "IndexJson"
    /\ inflight' = inflight - 1
    /\ \E ok \in BOOLEAN :
          IF ok
          THEN /\ connected_realms' \in SeqsUpTo(Hrefs, MaxLinks)
               /\ link_pos' = 1
               /\ pc' = NextLink(connected_realms', 1)
               /\ UNCHANGED error
          ELSE /\ Fail("ParseError")
               /\ UNCHANGED <<connected_realms, link_pos>>
    /\ UNCHANGED <<cfgVars, access_token, updVars, requests, connected_realm, realm_pos>>

get_connected_realm_send ==
    /\ link_pos \in 1..Len(connected_realms)
    /\ SendRequest("Detail", "DetailSend", "connected_realm",
                   <<connected_realms[link_pos]>>)

get_connected_realm_send_return == SendReturn("DetailSend", "DetailJson")

\* The same loop, leaving a connected realm after its first realm.
NextRealmOnce(cr, next) ==
    IF next > Min2(1, Len(cr.realms))
    THEN /\ link_pos' = link_pos + 1
         /\ pc' = NextLink(connected_realms, link_pos + 1)
    ELSE /\ pc' = "AhIndex"
         /\ UNCHANGED link_pos

\* The loop over connected_realm.realms with `next` realms taken: the next
\* realm's auction-house index, or the next link when the realms are done.
NextRealm(cr, next) ==
    IF next > Len(cr.realms)
    THEN /\ link_pos' = link_pos + 1
         /\ pc' = NextLink(connected_realms, link_pos + 1)
    ELSE /\ pc' = "AhIndex"
         /\ UNCHANGED link_pos

\* .json::<ConnectedRealm>().await
get_connected_realm_json ==
    /\ pc = "DetailJson"
    /\ inflight' = inflight - 1
    /\ \E ok \in BOOLEAN :
          IF ok
          THEN /\ \E id \in RealmIds, realms \in RealmLists :
                     connected_realm' = [id |-> id, realms |-> realms]
               /\ realm_pos' = 1
               /\ NextRealm(connected_realm', 1)
               /\ UNCHANGED error
          ELSE /\ Fail("ParseError")
               /\ UNCHANGED <<connected_realm, realm_pos, link_pos>>
    /\ UNCHANGED <<cfgVars, access_token, updVars, requests, connected_realms>>

\* get_auction_houses(settings, token, connected_realm.id), inside
\* `for realm in connected_realm.realms`.
get_auction_houses_send ==
    SendRequest("AhIndex", "AhSend", "auction_house_index",
                <<"connected-realm", connected_realm.id, "auctions", "index">>)

get_auction_houses_send_return == SendReturn("AhSend", "AhJson")

\* .json::<AuctionHouseList>().await; its auction houses are printed and the
\* loop takes the next realm.
get_auction_houses_json ==
    /\ pc = "AhJson"
    /\ inflight' = inflight - 1
    /\ \E ok \in BOOLEAN :
          IF ok
          THEN /\ realm_pos' = realm_pos + 1
               /\ NextRealm(connected_realm, realm_pos + 1)
               /\ UNCHANGED error
          ELSE /\ Fail("ParseError")
               /\ UNCHANGED <<realm_pos, link_pos>>
    /\ UNCHANGED <<cfgVars, access_token, updVars, requests, connected_realms,
                   connected_realm>>

(***************************************************************************)
(* A whole run.                                                            *)
(***************************************************************************)
Init ==
    /\ command \in {"Update", "ListAuctionHouses"}
    /\ pc = "Start"
    /\ error = "none"
    /\ auction_houses \in SeqsUpTo(PairChoices, MaxPairs)
    /\ access_token = <<>>
    /\ pair = 0
    /\ fetched = <<>>
    /\ pos = 0
    /\ by_items = EmptyMap
    /\ points = <<>>
    /\ writes = <<>>
    /\ requests = <<>>
    /\ inflight = 0
    /\ connected_realms = <<>>
    /\ link_pos = 0
    /\ connected_realm = NoRealm
    /\ realm_pos = 0

Next ==
    \/ get_settings
    \/ get_access_token_request
    \/ get_access_token_response
    \/ perform_single_update
    \/ get_auctions_send
    \/ get_auctions_send_return
    \/ get_auctions_json
    \/ update_prices_loop
    \/ update_prices_points
    \/ client_write_request
    \/ client_write_response
    \/ list_all_auction_houses
    \/ get_connected_realms_send
    \/ get_connected_realms_send_return
    \/ get_connected_realms_json
    \/ get_connected_realm_send
    \/ get_connected_realm_send_return
    \/ get_connected_realm_json
    \/ get_auction_houses_send
    \/ get_auction_houses_send_return
    \/ get_auction_houses_json

Spec == Init /\ [][Next]_vars

\* The task is single and runs each step to the next await; every call
\* returns.
FairSpec == Spec /\ WF_vars(Next)

(***************************************************************************)
(* The aggregation loop on its own: update_prices right after a fetch      *)
(* returned `fetched`, for every listing sequence up to MaxLen.            *)
(***************************************************************************)
InitAgg ==
    /\ command = "Update"
    /\ pc = "Aggregate"
    /\ error = "none"
    /\ auction_houses = <<<<10, 2>>>>
    /\ access_token = <<"Bearer", "s1">>
    /\ pair = 1
    /\ fetched \in SeqsUpTo(Listings, MaxLen)
    /\ pos = 1
    /\ by_items = EmptyMap
    /\ points = <<>>
    /\ writes = <<>>
    /\ requests = <<[kind |-> "token", auth |-> <<>>, url |-> <<"token">>],
                    [kind |-> "auctions", auth |-> <<"Bearer", "s1">>,
                     url |-> <<"connected-realm", 10, "auctions", 2>>]>>
    /\ inflight = 0
    /\ connected_realms = <<>>
    /\ link_pos = 0
    /\ connected_realm = NoRealm
    /\ realm_pos = 0

AggSpec == InitAgg /\ [][update_prices_loop]_vars

\* The loop has run to its end without a panic.
LoopFinished == pc = "Aggregate" /\ pos > Len(fetched)

\* Positions of the listings of item id among the first n of s.
Of(s, id, n) == {i \in 1..n : s[i].item = id}

(***************************************************************************)
(* Reference values the aggregation claims compare the loop against.       *)
(***************************************************************************)
SetMin(S) == CHOOSE m \in S : \A x \in S : m <= x

\* floor(a / b) for b # 0.
FloorDiv(a, b) == IF b > 0 THEN a \div b ELSE (-a) \div (-b)

\* The unit buyouts of the listings of item id that have a buyout.
UnitBuyouts(s, id) ==
    {FloorDiv(s[i].buyout, s[i].quantity) :
        i \in {j \in Of(s, id, Len(s)) : s[j].buyout > 0}}

\* The sum of the quantities of item id among the first n listings, clamped
\* to the integer range after every addition, in input order from 0.
RECURSIVE SatSum(_, _, _)
SatSum(s, id, n) ==
    IF n = 0 THEN 0
    ELSE LET prev == SatSum(s, id, n - 1)
         IN IF s[n].item = id
            THEN Max2(I64Min, Min2(I64Max, prev + s[n].quantity))
            ELSE prev

\* The same sum without clamping.
RECURSIVE PlainSum(_, _, _)
PlainSum(s, id, n) ==
    IF n = 0 THEN 0
    ELSE PlainSum(s, id, n - 1) + (IF s[n].item = id THEN s[n].quantity ELSE 0)

Reordered(s, p) == [i \in 1..Len(s) |-> s[p[i]]]

(***************************************************************************)
(* Properties of the aggregation loop, under AggSpec.                      *)
(***************************************************************************)

\* C1: when every quantity is non-zero and the loop has finished, each
\* item's min_buyout is the minimum of floor(buyout / quantity) over its
\* listings with buyout > 0, and 0 if it has none.
C1_MinBuyoutIsMinimum ==
    (LoopFinished /\ \A i \in 1..Len(fetched) : fetched[i].quantity # 0) =>
        \A id \in {fetched[i].item : i \in 1..Len(fetched)} :
            /\ id \in DOMAIN by_items
            /\ by_items[id].min_buyout =
                  (IF UnitBuyouts(fetched, id) = {} THEN 0
                   ELSE SetMin(UnitBuyouts(fetched, id)))

\* C2: the loop's outcome on any reordering of the listing sequence is the
\* mapping it produced on the sequence itself.
C2_PermutationInvariant ==
    LoopFinished =>
        \A p \in Permutations(1..Len(fetched)) :
            aggregate(Reordered(fetched, p)) =
                [panicked |-> FALSE, by_items |-> by_items]

\* C3: the aggregation loop never aborts the process, whatever the
\* listings, a listing of quantity 0 with a buyout included.
C3_NoCrash == pc # "Panicked"

\* C5: after any number of listings, each item's total_items is the
\* saturating sum, in input order from 0, of the quantities of its listings
\* so far, and lies in the integer range.
C5_TotalItemsSaturatingSum ==
    \A id \in DOMAIN by_items :
        /\ by_items[id].total_items = SatSum(fetched, id, pos - 1)
        /\ by_items[id].total_items \in I64Min..I64Max

\* C5 witness: the loop finished for an item whose quantities sum past the
\* maximum.
C5_Witness ==
    /\ LoopFinished
    /\ \E id \in DOMAIN by_items :
          /\ PlainSum(fetched, id, Len(fetched)) > I64Max
          /\ by_items[id].total_items = I64Max

\* C6: after any number of listings, the keys of by_items are exactly the
\* item ids seen so far, and each key's count is the number of listings
\* seen with that id (so at least 1).
C6_KeysAndCounts ==
    /\ DOMAIN by_items = {fetched[i].item : i \in 1..(pos - 1)}
    /\ \A id \in DOMAIN by_items :
          /\ by_items[id].auctions = Cardinality(Of(fetched, id, pos - 1))
          /\ by_items[id].auctions >= 1

\* C6 witness: the loop finished with two listings of item 1 and none of
\* item 2.
C6_Witness ==
    /\ LoopFinished
    /\ DOMAIN by_items = {1}
    /\ by_items[1].auctions = 2
    /\ Len(fetched) = 2

(***************************************************************************)
(* Properties of a whole run, under Spec and FairSpec.                     *)
(***************************************************************************)
Terminal == pc \in {"Done", "Failed", "Panicked"}
Aborted == pc \in {"Failed", "Panicked"}

OfKind(kind) == SelectSeq(requests, LAMBDA r : r.kind = kind)

FetchUrl(p) == <<"connected-realm", p[1], "auctions", p[2]>>

\* Every point of write w carries the realm and auction house of pair j.
WriteIsForPair(w, j) ==
    \A i \in DOMAIN w.points :
        /\ w.points[i].tags.realm_id = ToString(auction_houses[j][1])
        /\ w.points[i].tags.ah_id = ToString(auction_houses[j][2])

\* The fetches sent so far are those of the first pairs, in configuration
\* order, up to pair k at most.
FetchesArePrefix(k) ==
    LET f == OfKind("auctions")
    IN /\ Len(f) \in {k - 1, k}
       /\ \A j \in 1..Len(f) : f[j].url = FetchUrl(auction_houses[j])

\* Writes have completed for exactly the pairs before k, none for pair k,
\* and nothing was fetched or written for a pair after k.
PrefixWritten(k) ==
    /\ Len(writes) \in {k - 1, k}
    /\ \A j \in 1..Len(writes) :
          /\ writes[j].completed = (j < k)
          /\ WriteIsForPair(writes[j], j)
    /\ FetchesArePrefix(k)

\* C4: when an update run fails while it processes pair k, writes have
\* completed for exactly the pairs before k in configuration order, none
\* for pair k, nothing was fetched or written for a later pair; and after
\* the failure no step is taken at all.
C4_FailFastPrefix ==
    /\ []((command = "Update" /\ Aborted /\ pair >= 1) => PrefixWritten(pair))
    /\ [][~Aborted]_vars

\* C4 witness: the first pair is written and the second pair's fetch fails.
C4_Witness ==
    /\ command = "Update"
    /\ pc = "Failed"
    /\ error = "TransportError"
    /\ pair = 2
    /\ Len(writes) = 1
    /\ writes[1].completed

\* What C7 says of the requests sent, apart from how often the token is
\* asked for: the token request comes first, every later request carries
\* the token obtained, and a failed exchange is followed by nothing.
TokenGuardsRequests ==
    /\ Len(OfKind("token")) <= 1
    /\ requests # <<>> => requests[1].kind = "token"
    /\ \A i \in 2..Len(requests) :
          /\ access_token # <<>>
          /\ requests[i].auth = access_token
    /\ error = "AuthError" => (Len(requests) = 1 /\ writes = <<>>)
    /\ access_token = <<>> => writes = <<>>

\* C7 as claimed: every run performs the token exchange exactly once,
\* before any marketplace request; a failed exchange is followed by no
\* fetch, no discovery call and no write; every later request carries the
\* token.
C7_TokenExactlyOnce ==
    /\ TokenGuardsRequests
    /\ Terminal => Len(OfKind("token")) = 1

\* C7 amended: as claimed, except that the exchange is performed exactly
\* once in the runs whose settings load, and not at all in a run that ends
\* with the settings failing to load.
C7_TokenOnceIfConfigured ==
    /\ TokenGuardsRequests
    /\ (Terminal /\ error # "ConfigError") => Len(OfKind("token")) = 1
    /\ error = "ConfigError" => requests = <<>>

\* C7 witness: an update run that fetched two pairs with its token.
C7_Witness ==
    /\ pc = "Done"
    /\ command = "Update"
    /\ Len(OfKind("auctions")) = 2
    /\ Len(writes) = 2

\* The number of configured pairs whose fetch has succeeded.
FetchSucceeded ==
    IF pair = 0 THEN 0
    ELSE (pair - 1) + (IF pc \in {"Aggregate", "Write", "WriteWait"}
                          \/ error \in {"DivideByZero", "WriteError"}
                       THEN 1 ELSE 0)

\* The batch holds exactly one point per item id of `listings`, tagged with
\* the pair and carrying the item's aggregate.
BatchMatches(batch, listings, p) ==
    LET agg == aggregate(listings).by_items
        ids == {listings[i].item : i \in 1..Len(listings)}
    IN /\ Len(batch) = Cardinality(ids)
       /\ \A id \in ids : \E i \in DOMAIN batch :
             /\ batch[i].tags.item_id = ToString(id)
             /\ batch[i].tags.realm_id = ToString(p[1])
             /\ batch[i].tags.ah_id = ToString(p[2])
             /\ batch[i].fields = [count       |-> agg[id].auctions,
                                   total_items |-> agg[id].total_items,
                                   min_buyout  |-> agg[id].min_buyout]

\* C8: every pair whose fetch succeeded gets exactly one write, issued with
\* one point per distinct item id of that pair's listings, tagged with the
\* pair and carrying the item's count, total_items and min_buyout.
C8_OneWritePerFetchedPair ==
    /\ pc = "WriteWait" =>
          BatchMatches(writes[Len(writes)].points, fetched, auction_houses[pair])
    /\ (command = "Update" /\ Terminal) => Len(writes) = FetchSucceeded

\* The state of the run in the terms of the design's state machine.
RunState ==
    CASE pc \in {"Start", "Auth", "AuthWait"} -> "Unauthenticated"
      [] pc = "Dispatch" -> "Authenticated"
      [] pc \in {"Fetch", "FetchSend", "FetchJson"} -> "Fetching"
      [] pc = "Aggregate" -> "Aggregating"
      [] pc \in {"Write", "WriteWait"} -> "Writing"
      [] pc = "Done" -> "Done"
      [] pc \in {"Failed", "Panicked"} -> "Failed"
      [] OTHER -> "Listing"

ForwardEdges ==
    {<<"Unauthenticated", "Authenticated">>,
     <<"Authenticated", "Fetching">>, <<"Authenticated", "Done">>,
     <<"Fetching", "Aggregating">>, <<"Aggregating", "Writing">>,
     <<"Writing", "Fetching">>, <<"Writing", "Done">>}

\* A step of the state machine: within a state, along a forward edge (to
\* the next pair's fetch only from the pair's write), or to Failed.
ForwardStep ==
    /\ ~Terminal
    /\ \/ RunState' = RunState /\ pair' = pair
       \/ RunState' = "Failed" /\ pair' = pair
       \/ /\ <<RunState, RunState'>> \in ForwardEdges
          /\ pair' = IF RunState = "Authenticated" THEN 1
                     ELSE IF RunState = "Writing" THEN pair + 1 ELSE pair
          /\ RunState' = "Fetching" => pair' <= Len(auction_houses)
          /\ RunState' = "Done" => pair' = Len(auction_houses) + 1

\* Every configured pair has been written, in configuration order.
AllWritten ==
    /\ Len(writes) = Len(auction_houses)
    /\ \A j \in 1..Len(writes) : writes[j].completed /\ WriteIsForPair(writes[j], j)

\* C9: an update run only moves forward through Unauthenticated,
\* Authenticated, then Fetching, Aggregating, Writing for each pair in
\* configuration order, to Done, or to Failed on the first error; at most
\* one call is outstanding; Done and Failed are left by no step; when every
\* call returns the run reaches one of them; Done is reached only with every
\* configured pair written.
C9_ForwardOnly ==
    /\ [](command = "Update" =>
            /\ inflight \in {0, 1}
            /\ pair >= 1 /\ ~Aborted => FetchesArePrefix(pair)
            /\ pc = "Done" => AllWritten)
    /\ [][command = "Update" => ForwardStep]_vars
    /\ <>Terminal

\* C9 witness: an update run of two pairs is Done.
C9_Witness ==
    /\ command = "Update"
    /\ pc = "Done"
    /\ Len(auction_houses) = 2
    /\ AllWritten

\* Position of the last request of a kind, 0 if there is none.
LastOfKind(kind) ==
    LET P == {i \in 1..Len(requests) : requests[i].kind = kind}
    IN IF P = {} THEN 0 ELSE CHOOSE i \in P : \A j \in P : j <= i

\* The auction-house index requests sent since the last connected-realm
\* detail request.
AhSince ==
    {i \in 1..Len(requests) :
        /\ i > LastOfKind("connected_realm")
        /\ requests[i].kind = "auction_house_index"}

\* What C10 says apart from how often a group's index is fetched: no
\* aggregation and no write in list mode; the connected-realm index is
\* fetched first and once; the details are fetched for the links in order;
\* the auction-house index requests name the group being walked.
ListWalkShape ==
    command = "ListAuctionHouses" =>
        /\ writes = <<>> /\ by_items = EmptyMap /\ points = <<>> /\ fetched = <<>>
        /\ OfKind("auctions") = <<>>
        /\ Len(OfKind("connected_realm_index")) <= 1
        /\ Len(requests) >= 2 => requests[2].kind = "connected_realm_index"
        /\ LET d == OfKind("connected_realm")
           IN /\ Len(d) <= Len(connected_realms)
              /\ \A j \in 1..Len(d) : d[j].url = <<connected_realms[j]>>
              /\ pc \notin {"Failed", "Detail"} => Len(d) = Min2(link_pos, Len(connected_realms))
        /\ \A i \in AhSince :
              requests[i].url = <<"connected-realm", connected_realm.id, "auctions", "index">>

\* The walk leaves a connected realm (or ends) in this step.
LeavesGroup == command = "ListAuctionHouses" /\ link_pos >= 1 /\ link_pos' = link_pos + 1

\* C10 as claimed: the auction-house index of a realm group is fetched
\* once per group, however many member realms it has.
C10_OncePerGroup ==
    /\ []ListWalkShape
    /\ [][LeavesGroup => Cardinality(AhSince') = 1]_vars

\* C10 amended: the auction-house index of a realm group is fetched once
\* per member realm of the group.
C10_OncePerMemberRealm ==
    /\ []ListWalkShape
    /\ [](command = "ListAuctionHouses" /\ pc \in {"AhIndex", "AhSend", "AhJson"} =>
            Cardinality(AhSince) = (realm_pos - 1) + (IF pc = "AhIndex" THEN 0 ELSE 1))
    /\ [][LeavesGroup => Cardinality(AhSince') = Len(connected_realm'.realms)]_vars

\* C10 witness: the walk is done and its last group had two member realms.
C10_Witness ==
    /\ command = "ListAuctionHouses"
    /\ pc = "Done"
    /\ Len(connected_realms) = 2
    /\ Len(connected_realm.realms) = 2
    /\ Cardinality(AhSince) = 2

====
